---- MODULE Spec2Model ----
(***************************************************************************)
(* The browser-side workflow controller of static/app.js.  The file holds  *)
(* two versions of the controller: variant 1 (fixed whitelist, three       *)
(* sources, lines 1-242) and variant 2 (level-based titles, two sources,   *)
(* lines 244-440).  The page runs one of them; `variant` says which.       *)
(*                                                                         *)
(* JavaScript is single-threaded: an async handler runs without            *)
(* interruption up to its `await fetch(...)`, and its continuation runs    *)
(* without interruption when the response is there.  Each handler is       *)
(* therefore two actions: the part before the await, and the resumption.   *)
(* `await res.json()` directly follows `await fetch` and neither reads nor *)
(* writes controller state in between, so both awaits are one resumption;  *)
(* a response "arrives" when its body has been read.                       *)
(***************************************************************************)
EXTENDS Integers, Sequences, FiniteSets, TLC

\* Bounds of the model.
MaxTokens == 2      \* tokens the server issues in one run
MaxInflight == 2    \* handlers suspended at an await at the same time

Null == 0           \* JavaScript null, for the token variables

VARIABLES
  variant,          \* 1 | 2: which version of app.js the page loaded
  uploadToken,      \* let uploadToken
  uploadDirToken,   \* let uploadDirToken (variant 1 only; stays Null in variant 2)
  lastSource,       \* let lastSource
  lastFilesMeta,    \* let lastFilesMeta
  use_all,          \* #use_all.checked
  options,          \* the <option> values of #whitelist (variant 1) / #titles (variant 2)
  selected,         \* the values of the selected options
  level,            \* #level.value (variant 2)
  table,            \* the rows of #files-table
  badges,           \* <<files, titles>> shown by #badge-archivos / #badge-titulos
  inflight,         \* the handlers suspended at their await
  issued,           \* server: tokens 1..issued were issued by /api/scan-upload
  released,         \* server: tokens received in a /api/cleanup request
  shownLevel,       \* history: the level of the request whose titles are in #titles
  metaToken,        \* history: the token of the response that lastFilesMeta is from
  act,              \* the step just taken: handler, inputs, response
  logged,           \* the lines that step appended to #log
  sent,             \* the requests that step passed to fetch
  download          \* the file name of the download that step triggered, or ""

session == <<uploadToken, uploadDirToken, lastSource, lastFilesMeta>>
dom     == <<use_all, options, selected, level, table, badges>>
server  == <<issued, released>>
history == <<shownLevel, metaToken>>
output  == <<act, logged, sent, download>>
vars    == <<variant, session, dom, inflight, server, history, output>>

(***************************************************************************)
(* Values                                                                  *)
(***************************************************************************)

\* The fixed whitelist of variant 1: its first two of 28 titles stand for the list.
TITULOS_WHITELIST == <<"1. Introduccion", "2. Diagnostico estrategico">>

\* What the user may have typed in #folder, chosen in #files / #folderInput,
\* checked in input[name=mode], and chosen in #level.
FolderInputs == {"  ", "/docs"}
FileInputs   == {<<>>, <<"a.docx">>}
DirInputs    == {<<>>, <<"notes.txt">>, <<"B.DOCX", "notes.txt">>}
Modes        == {"unificado", "grouped"}
Levels       == {"1", "2"}

\* String.prototype.trim on the folder inputs.
Trim(s) == IF s = "  " THEN "" ELSE s

\* f.name.toLowerCase().endsWith(".docx") on the file names above.
IsDocx(name) == name \in {"a.docx", "B.DOCX"}

\* parseInt(s, 10) on the values of #level.
ParseInt(s) == IF s = "1" THEN 1 ELSE 2

\* a || b for tokens.
JsOr(a, b) == IF a # Null THEN a ELSE b

Range(s) == {s[i] : i \in 1..Len(s)}

SelectSeqIn(s, S) == SelectSeq(s, LAMBDA x : x \in S)

\* FileMeta {name, count, titles} as the server returns it.
FileA == [name |-> "a.docx", count |-> 1, titles |-> <<"T1">>]
FileB == [name |-> "b.docx", count |-> 0, titles |-> <<>>]

(***************************************************************************)
(* The server's answers.  A response is its HTTP status, its status text   *)
(* and its body: json = <<>> when the body is not JSON, <<js>> otherwise.  *)
(* A field the server leaves out is absent from the record js.             *)
(***************************************************************************)
Has(js, f) == f \in DOMAIN js

\* js.f || dflt
FieldOr(js, f, dflt) == IF Has(js, f) THEN js[f] ELSE dflt

\* `${js.count}` and js.count || 0
CountText(js) == IF Has(js, "count") THEN ToString(js.count) ELSE "undefined"

\* The success bodies of a scan, without the token: one without the optional
\* fields, one whose count is not the length of files_meta, one with two files.
\* Variant 2's server adds the titles of the level, or leaves them out.
ScanOkBodies(v) ==
  IF v = 1 THEN
    { [ok |-> TRUE],
      [ok |-> TRUE, count |-> 2, files_meta |-> <<FileA>>],
      [ok |-> TRUE, count |-> 2, files_meta |-> <<FileA, FileB>>] }
  ELSE
    { [ok |-> TRUE, count |-> 0, titles |-> <<>>],
      [ok |-> TRUE, count |-> 2, files_meta |-> <<FileA>>, titles |-> <<"T1", "T2">>],
      [ok |-> TRUE, count |-> 2, files_meta |-> <<FileA, FileB>>] }

ErrorBodies == { [ok |-> FALSE, error |-> "boom"], [ok |-> FALSE] }

\* Non-ok answers: a JSON error body, with or without an error string, or a
\* body that is not JSON.
ErrorResponses ==
  { [status |-> "400", statusText |-> "Bad Request", json |-> <<js>>] : js \in ErrorBodies }
  \cup { [status |-> "500", statusText |-> "Internal Server Error", json |-> <<>>] }

\* HTTP/2 has no status text.
NoStatusText == [status |-> "502", statusText |-> "", json |-> <<>>]

OkResponse(js) == [status |-> "200", statusText |-> "OK", json |-> <<js>>]

\* fetch rejected: the network failed and there is no response.
NetworkError == [status |-> "0", statusText |-> "rejected", json |-> <<>>]


ScanResponses(v, upload) ==
  { OkResponse(IF upload THEN js @@ ("token" :> (issued + 1)) ELSE js) :
      js \in {b \in ScanOkBodies(v) : ~upload \/ issued < MaxTokens} }
  \cup ErrorResponses \cup {NetworkError}

MergeResponses ==
  {[status |-> "200", statusText |-> "OK", json |-> <<>>], NoStatusText, NetworkError}
  \cup ErrorResponses

CleanupResponses ==
  {[status |-> "200", statusText |-> "OK", json |-> <<>>], NetworkError}

\* The await throws: fetch rejected, or res.json() rejected on a body that is not JSON.
Throws(resp) == resp = NetworkError \/ resp.json = <<>>

\* js.error || res.status
ErrorText(js, status) == IF Has(js, "error") /\ js.error # "" THEN js.error ELSE status

(***************************************************************************)
(* Rendering.  Log lines are tuples of their text parts; accents are       *)
(* written without diacritics.                                             *)
(***************************************************************************)
PlaceholderRow == [kind |-> "placeholder", text |-> "Sin datos. Escanea primero."]

FileRow(f) ==
  [kind |-> "file", name |-> f.name, count |-> f.count,
   badge |-> IF f.count > 0 THEN "bg-primary" ELSE "bg-secondary"]

drawFilesTable(filesMeta) ==
  IF Len(filesMeta) = 0 THEN <<PlaceholderRow>>
  ELSE [i \in 1..Len(filesMeta) |-> FileRow(filesMeta[i])]

\* The file rows of the table, without the placeholder.
FileRows(t) == SelectSeq(t, LAMBDA r : r.kind = "file")

\* Array.from(sel.selectedOptions).map(o => o.value): in document order.
selectedOptions == SelectSeqIn(options, selected)

\* The handlers suspended at an await.
Req(op, lvl, mode, tok) == [op |-> op, level |-> lvl, mode |-> mode, token |-> tok]

\* A suspended scan; `had` is history: the options selected when it was started.
ScanReq(op, lvl) == Req(op, lvl, "", Null) @@ [had |-> selected]

Started(r) == inflight \cup {r}
Resumed(r) == inflight \ {r}

\* A handler starts a request when fewer than MaxInflight are pending and its own
\* earlier request, if any, has been answered: a second click on a button whose
\* request is pending is left out.
CanStart(op) ==
  /\ Cardinality(inflight) < MaxInflight
  /\ \A r \in inflight : r.op # op

Emit(a, lines, reqs, file) ==
  /\ act' = a
  /\ logged' = lines
  /\ sent' = reqs
  /\ download' = file

(***************************************************************************)
(* The state once DOMContentLoaded has run.                                *)
(***************************************************************************)
Init ==
  /\ variant \in {1, 2}
  /\ uploadToken = Null
  /\ uploadDirToken = Null
  /\ lastSource = "folder"
  /\ lastFilesMeta = <<>>
  /\ use_all = FALSE
  /\ options = IF variant = 1 THEN TITULOS_WHITELIST ELSE <<>>
  /\ selected = {}
  /\ level = IF variant = 1 THEN "" ELSE "1"
  /\ table = <<>>
  /\ badges = <<0, 0>>
  /\ inflight = {}
  /\ issued = 0
  /\ released = {}
  /\ shownLevel = ""
  /\ metaToken = Null
  /\ act = [op |-> "DOMContentLoaded"]
  /\ logged = <<>>
  /\ sent = <<>>
  /\ download = ""


(***************************************************************************)
(* Variant 1 (lines 1-242)                                                 *)
(***************************************************************************)

\* setBadges(filesCount): variant 1 has the files badge only.
setBadges1(filesCount) == <<filesCount, badges[2]>>

\* lines 112, 132, 156: if (!js.ok) { log("ERROR: " + (js.error || res.status)); return; }
ErrorLine(js, status) == <<"ERROR: ", ErrorText(js, status)>>

\* lines 113, 134, 158: lastFilesMeta = js.files_meta || []
FilesMetaOf(js) == FieldOr(js, "files_meta", <<>>)

\* selectedIndexNone with the selection left as it is.
selectedIndexKept(sel) == sel

\* lines 98, 121, 142: $("#whitelist").selectedIndex = -1 deselects every option.
selectedIndexNone(sel) == {}

\* scanFolder up to `await fetch` (lines 96-110).  The request is sent whatever
\* the folder field holds.
scanFolder1(folder, subs) ==
  /\ variant = 1 /\ CanStart("scanFolder")
  /\ lastSource' = "folder" /\ uploadToken' = Null /\ uploadDirToken' = Null
  /\ selected' = selectedIndexNone(selected)
  /\ table' = drawFilesTable(<<>>) /\ badges' = setBadges1(0)
  /\ inflight' = Started(ScanReq("scanFolder", ""))
  /\ Emit([op |-> "scanFolder", folder |-> folder],
          << <<"Escaneando carpeta en servidor...">> >>,
          << [url |-> "/api/scan-folder",
              body |-> [folder |-> Trim(folder), include_subs |-> subs,
                        whitelist |-> TITULOS_WHITELIST]] >>,
          "")
  /\ UNCHANGED <<variant, lastFilesMeta, use_all, options, level, server, history>>

\* scanFolder from the response on (lines 111-116).
scanFolder1Resume(q, resp) ==
  /\ variant = 1 /\ q.op = "scanFolder"
  /\ LET a == [op |-> "scanFolder.resume", req |-> q, resp |-> resp] IN
     IF Throws(resp) THEN
       /\ inflight' = Resumed(q)
       /\ Emit(a, <<>>, <<>>, "")
       /\ UNCHANGED <<variant, session, dom, server, history>>
     ELSE LET js == resp.json[1] IN
       IF ~js.ok THEN
         /\ inflight' = Resumed(q)
         /\ Emit(a, <<ErrorLine(js, resp.status)>>, <<>>, "")
         /\ UNCHANGED <<variant, session, dom, server, history>>
       ELSE
         /\ lastFilesMeta' = FilesMetaOf(js)
         /\ badges' = setBadges1(FieldOr(js, "count", 0))
         /\ table' = drawFilesTable(lastFilesMeta')
         /\ inflight' = Resumed(q)
         /\ Emit(a, << <<"Archivos: ", CountText(js), " | titulos totales en whitelist: ",
                         ToString(Len(TITULOS_WHITELIST))>> >>, <<>>, "")
         /\ metaToken' = Null
         /\ UNCHANGED <<variant, uploadToken, uploadDirToken, lastSource,
                        use_all, options, selected, level, server, shownLevel>>

\* scanUpload up to `await fetch` (lines 119-130).
scanUpload1(files) ==
  /\ variant = 1
  /\ lastSource' = "upload" /\ uploadDirToken' = Null
  /\ selected' = selectedIndexNone(selected)
  /\ table' = drawFilesTable(<<>>) /\ badges' = setBadges1(0)
  /\ LET a == [op |-> "scanUpload", files |-> files] IN
     IF Len(files) = 0 THEN
       /\ Emit(a, << <<"Selecciona .docx primero.">> >>, <<>>, "")
       /\ UNCHANGED inflight
     ELSE
       /\ CanStart("scanUpload")
       /\ inflight' = Started(ScanReq("scanUpload", ""))
       /\ Emit(a, << <<"Subiendo ", ToString(Len(files)), " archivo(s)...">> >>,
               << [url |-> "/api/scan-upload",
                   body |-> [whitelist |-> TITULOS_WHITELIST, files |-> files]] >>,
               "")
  /\ UNCHANGED <<variant, uploadToken, lastFilesMeta, use_all, options, level, server, history>>

\* scanUpload from the response on (lines 131-137).
scanUpload1Resume(q, resp) ==
  /\ variant = 1 /\ q.op = "scanUpload"
  /\ LET a == [op |-> "scanUpload.resume", req |-> q, resp |-> resp] IN
     IF Throws(resp) THEN
       /\ inflight' = Resumed(q)
       /\ Emit(a, <<>>, <<>>, "")
       /\ UNCHANGED <<variant, session, dom, server, history>>
     ELSE LET js == resp.json[1] IN
       IF ~js.ok THEN
         /\ inflight' = Resumed(q)
         /\ Emit(a, <<ErrorLine(js, resp.status)>>, <<>>, "")
         /\ UNCHANGED <<variant, session, dom, server, history>>
       ELSE
         /\ issued' = js.token
         /\ uploadToken' = js.token
         /\ lastFilesMeta' = FilesMetaOf(js)
         /\ badges' = setBadges1(FieldOr(js, "count", 0))
         /\ table' = drawFilesTable(lastFilesMeta')
         /\ inflight' = Resumed(q)
         /\ Emit(a, << <<"Token: ", ToString(uploadToken'), " | Archivos: ", CountText(js)>> >>,
                 <<>>, "")
         /\ metaToken' = js.token
         /\ UNCHANGED <<variant, uploadDirToken, lastSource,
                        use_all, options, selected, level, released, shownLevel>>

\* scanUploadDir up to `await fetch` (lines 140-154): only the .docx files are sent.
scanUploadDir1(files) ==
  /\ variant = 1
  /\ lastSource' = "upload_dir" /\ uploadToken' = Null
  /\ selected' = selectedIndexNone(selected)
  /\ table' = drawFilesTable(<<>>) /\ badges' = setBadges1(0)
  /\ LET a == [op |-> "scanUploadDir", files |-> files] IN
     IF Len(files) = 0 THEN
       /\ Emit(a, << <<"Selecciona una carpeta con .docx.">> >>, <<>>, "")
       /\ UNCHANGED inflight
     ELSE
       /\ CanStart("scanUploadDir")
       /\ inflight' = Started(ScanReq("scanUploadDir", ""))
       /\ Emit(a, << <<"Subiendo carpeta con ", ToString(Len(files)), " archivo(s)...">> >>,
               << [url |-> "/api/scan-upload",
                   body |-> [whitelist |-> TITULOS_WHITELIST,
                             files |-> SelectSeq(files, IsDocx)]] >>,
               "")
  /\ UNCHANGED <<variant, uploadDirToken, lastFilesMeta, use_all, options, level, server, history>>

\* scanUploadDir from the response on (lines 155-161).
scanUploadDir1Resume(q, resp) ==
  /\ variant = 1 /\ q.op = "scanUploadDir"
  /\ LET a == [op |-> "scanUploadDir.resume", req |-> q, resp |-> resp] IN
     IF Throws(resp) THEN
       /\ inflight' = Resumed(q)
       /\ Emit(a, <<>>, <<>>, "")
       /\ UNCHANGED <<variant, session, dom, server, history>>
     ELSE LET js == resp.json[1] IN
       IF ~js.ok THEN
         /\ inflight' = Resumed(q)
         /\ Emit(a, <<ErrorLine(js, resp.status)>>, <<>>, "")
         /\ UNCHANGED <<variant, session, dom, server, history>>
       ELSE
         /\ issued' = js.token
         /\ uploadDirToken' = js.token
         /\ lastFilesMeta' = FilesMetaOf(js)
         /\ badges' = setBadges1(FieldOr(js, "count", 0))
         /\ table' = drawFilesTable(lastFilesMeta')
         /\ inflight' = Resumed(q)
         /\ Emit(a, << <<"Token: ", ToString(uploadDirToken'), " | Archivos: ", CountText(js)>> >>,
                 <<>>, "")
         /\ metaToken' = js.token
         /\ UNCHANGED <<variant, uploadToken, lastSource,
                        use_all, options, selected, level, released, shownLevel>>


\* NoTitleChosen with the test of use_all inverted.
NoTitleChosenInverted(ua, sel) == ua /\ Len(sel) = 0

\* lines 168-170 and 364-366: nothing selected and "use all" unchecked.
NoTitleChosen(ua, sel) == ~ua /\ Len(sel) = 0

NoTitleLine == <<"Selecciona al menos un titulo o marca 'Usar todos'.">>

Abort(line) == [ok |-> FALSE, line |-> <<line>>, fields |-> <<>>]
Fields(f)   == [ok |-> TRUE, line |-> <<>>, fields |-> f]

\* SourcePart1 with the token attached before the source is looked at.
SourcePart1TokenAlways(folder, subs) ==
  IF lastSource = "folder" THEN
    IF Trim(folder) = "" THEN Abort("Ingresa la ruta de la carpeta.")
    ELSE Fields([folder |-> Trim(folder), include_subs |-> subs, token |-> uploadToken])
  ELSE IF lastSource = "upload" THEN
    IF uploadToken = Null THEN Abort("Primero sube y escanea archivos.")
    ELSE Fields([token |-> uploadToken])
  ELSE
    IF uploadDirToken = Null THEN Abort("Primero sube y escanea la carpeta.")
    ELSE Fields([token |-> uploadDirToken])

\* lines 177-188: what the active source adds to the payload, or the line that
\* ends mergeNow.
SourcePart1(folder, subs) ==
  IF lastSource = "folder" THEN
    IF Trim(folder) = "" THEN Abort("Ingresa la ruta de la carpeta.")
    ELSE Fields([folder |-> Trim(folder), include_subs |-> subs])
  ELSE IF lastSource = "upload" THEN
    IF uploadToken = Null THEN Abort("Primero sube y escanea archivos.")
    ELSE Fields([token |-> uploadToken])
  ELSE
    IF uploadDirToken = Null THEN Abort("Primero sube y escanea la carpeta.")
    ELSE Fields([token |-> uploadDirToken])

\* mergeNow up to `await fetch` (lines 164-194).
mergeNow1(mode, folder, subs) ==
  /\ variant = 1
  /\ LET a == [op |-> "mergeNow", folder |-> folder]
         sel == IF ~use_all THEN selectedOptions ELSE TITULOS_WHITELIST
         part == SourcePart1(folder, subs)
         payload == [source |-> lastSource, mode |-> mode, titles |-> sel] @@ part.fields
     IN
     IF NoTitleChosen(use_all, sel) THEN
       /\ Emit(a, <<NoTitleLine>>, <<>>, "")
       /\ UNCHANGED inflight
     ELSE IF ~part.ok THEN
       /\ Emit(a, <<part.line>>, <<>>, "")
       /\ UNCHANGED inflight
     ELSE
       /\ CanStart("mergeNow")
       /\ inflight' = Started(Req("mergeNow", "", mode, Null))
       /\ Emit(a, << <<"Generando ZIP...">> >>,
               << [url |-> "/api/merge", body |-> payload] >>, "")
  /\ UNCHANGED <<variant, session, dom, server, history>>

\* mergeNowResume with the token dropped once the download has started.
mergeNowResumeConsumesToken(q, resp) ==
  /\ q.op = "mergeNow"
  /\ inflight' = Resumed(q)
  /\ LET a == [op |-> "mergeNow.resume", req |-> q, resp |-> resp]
         js == IF resp.json # <<>> THEN resp.json[1]
               ELSE [ok |-> FALSE, error |-> resp.statusText]
     IN
     IF resp = NetworkError THEN Emit(a, <<>>, <<>>, "")
     ELSE IF resp.status # "200" THEN Emit(a, <<ErrorLine(js, resp.status)>>, <<>>, "")
     ELSE Emit(a, << <<"Descarga iniciada.">> >>, <<>>,
               IF q.mode = "unificado" THEN "unificado.zip" ELSE "por_titulo.zip")
  /\ uploadToken' = IF resp.status = "200" THEN Null ELSE uploadToken
  /\ UNCHANGED <<variant, uploadDirToken, lastSource, lastFilesMeta, dom, server, history>>

\* mergeNow from the response on (lines 195-209, and the same text at 388-402).
mergeNowResume(q, resp) ==
  /\ q.op = "mergeNow"
  /\ inflight' = Resumed(q)
  /\ LET a == [op |-> "mergeNow.resume", req |-> q, resp |-> resp]
         js == IF resp.json # <<>> THEN resp.json[1]
               ELSE [ok |-> FALSE, error |-> resp.statusText]
     IN
     IF resp = NetworkError THEN Emit(a, <<>>, <<>>, "")
     ELSE IF resp.status # "200" THEN Emit(a, <<ErrorLine(js, resp.status)>>, <<>>, "")
     ELSE Emit(a, << <<"Descarga iniciada.">> >>, <<>>,
               IF q.mode = "unificado" THEN "unificado.zip" ELSE "por_titulo.zip")
  /\ UNCHANGED <<variant, session, dom, server, history>>

\* line 213: const token = uploadToken || uploadDirToken
CleanupToken1 == JsOr(uploadToken, uploadDirToken)

\* NoToken with the early return left out.
NoTokenNeverReturns(token) == FALSE

\* line 214 and line 406: if (!token)
NoToken(token) == token = Null

NoUploadsLine == <<"No hay subidas por limpiar.">>

\* cleanup up to `await fetch` (lines 212-218).
cleanup1 ==
  /\ variant = 1
  /\ LET token == CleanupToken1 IN
     IF NoToken(token) THEN
       /\ Emit([op |-> "cleanup"], <<NoUploadsLine>>, <<>>, "")
       /\ UNCHANGED <<inflight, released>>
     ELSE
       /\ CanStart("cleanup")
       /\ inflight' = Started(Req("cleanup", "", "", token))
       /\ released' = released \cup {token}
       /\ Emit([op |-> "cleanup"], <<>>,
               << [url |-> "/api/cleanup", body |-> [token |-> token]] >>, "")
  /\ UNCHANGED <<variant, session, dom, issued, history>>

\* cleanup from the response on (lines 219-220): any response will do, fetch
\* rejects on a network failure only.
cleanup1Resume(q, resp) ==
  /\ variant = 1 /\ q.op = "cleanup"
  /\ inflight' = Resumed(q)
  /\ LET a == [op |-> "cleanup.resume", req |-> q, resp |-> resp] IN
     IF resp = NetworkError THEN
       /\ Emit(a, <<>>, <<>>, "")
       /\ UNCHANGED <<uploadToken, uploadDirToken>>
     ELSE
       /\ uploadToken' = Null /\ uploadDirToken' = Null
       /\ Emit(a, << <<"Subidas temporales limpiadas.">> >>, <<>>, "")
  /\ UNCHANGED <<variant, lastSource, lastFilesMeta, dom, server, history>>

\* AfterUseAll without the loop over the options.
AfterUseAllKeeps(checked, sel) == sel

\* lines 238-240 and 429-431: if (e.target.checked) every option is deselected.
AfterUseAll(checked, sel) == IF checked THEN {} ELSE sel

\* The #use_all change handler (lines 237-241, and the same text at 428-432):
\* the user toggles the checkbox; checking it deselects every option.
useAllChange ==
  /\ use_all' = ~use_all
  /\ selected' = AfterUseAll(use_all', selected)
  /\ Emit([op |-> "use_all.change"], <<>>, <<>>, "")
  /\ UNCHANGED <<variant, session, options, level, table, badges, inflight, server, history>>

\* The selections the user makes in the multi-select: none, or the first option.
SelectionInputs == {{}} \cup {{options[i]} : i \in {1} \cap DOMAIN options}

\* The user changes the selection of the multi-select that mergeNow reads
\* (lines 169 and 365); no handler of app.js listens to it.
selectTitles(S) ==
  /\ S \subseteq Range(options) /\ S # selected
  /\ selected' = S
  /\ Emit([op |-> "select"], <<>>, <<>>, "")
  /\ UNCHANGED <<variant, session, use_all, options, level, table, badges, inflight,
                 server, history>>


(***************************************************************************)
(* Variant 2 (lines 244-440)                                               *)
(***************************************************************************)

\* fillTitles(titles) (lines 261-270): the options of #titles and, through
\* setBadges, both badges.
fillTitles(titles, filesMeta) == [options |-> titles, badges |-> <<Len(filesMeta), Len(titles)>>]

\* lines 331, 353: lastFilesMeta = js.files_meta || []
FilesMetaOf2(js) == FieldOr(js, "files_meta", <<>>)

\* scanFolder up to `await fetch` (lines 312-328).
scanFolder2(folder, subs) ==
  /\ variant = 2 /\ CanStart("scanFolder")
  /\ lastSource' = "folder" /\ uploadToken' = Null
  /\ options' = <<>> /\ selected' = {}
  /\ table' = drawFilesTable(<<>>) /\ badges' = <<0, 0>>
  /\ shownLevel' = ""
  /\ inflight' = Started(ScanReq("scanFolder", level))
  /\ Emit([op |-> "scanFolder", folder |-> folder],
          << <<"Escaneando carpeta...">> >>,
          << [url |-> "/api/scan-folder",
              body |-> [folder |-> Trim(folder), include_subs |-> subs,
                        level |-> ParseInt(level)]] >>,
          "")
  /\ UNCHANGED <<variant, uploadDirToken, lastFilesMeta, use_all, level, server, metaToken>>

\* The part of both scans from the log line on (lines 332-334, 354-356):
\* js.titles.length throws when the response has no titles field, and then
\* neither the titles nor the table are drawn.
ShowScan2(a, q, js, line) ==
  IF ~Has(js, "titles") THEN
    /\ Emit(a, <<>>, <<>>, "")
    /\ inflight' = Resumed(q)
    /\ UNCHANGED <<options, selected, badges, table, shownLevel>>
  ELSE
    /\ options' = fillTitles(js.titles, lastFilesMeta').options
    /\ badges' = fillTitles(js.titles, lastFilesMeta').badges
    /\ selected' = {}
    /\ table' = drawFilesTable(lastFilesMeta')
    /\ shownLevel' = q.level
    /\ inflight' = Resumed(q)
    /\ Emit(a, <<line>>, <<>>, "")

\* scanFolder from the response on (lines 329-334).
scanFolder2Resume(q, resp) ==
  /\ variant = 2 /\ q.op = "scanFolder"
  /\ LET a == [op |-> "scanFolder.resume", req |-> q, resp |-> resp] IN
     IF Throws(resp) THEN
       /\ inflight' = Resumed(q)
       /\ Emit(a, <<>>, <<>>, "")
       /\ UNCHANGED <<variant, session, dom, server, history>>
     ELSE LET js == resp.json[1] IN
       IF ~js.ok THEN
         /\ inflight' = Resumed(q)
         /\ Emit(a, <<ErrorLine(js, resp.status)>>, <<>>, "")
         /\ UNCHANGED <<variant, session, dom, server, history>>
       ELSE
         /\ lastFilesMeta' = FilesMetaOf2(js)
         /\ ShowScan2(a, q, js,
              <<"Archivos: ", CountText(js), " | Titulos (unicos, nivel) : ",
                ToString(Len(FieldOr(js, "titles", <<>>)))>>)
         /\ metaToken' = Null
         /\ UNCHANGED <<variant, uploadToken, uploadDirToken, lastSource,
                        use_all, level, server>>

\* scanUpload up to `await fetch` (lines 337-349).
scanUpload2(files) ==
  /\ variant = 2
  /\ lastSource' = "upload"
  /\ options' = <<>> /\ selected' = {}
  /\ table' = drawFilesTable(<<>>) /\ badges' = <<0, 0>>
  /\ shownLevel' = ""
  /\ LET a == [op |-> "scanUpload", files |-> files] IN
     IF Len(files) = 0 THEN
       /\ Emit(a, << <<"Selecciona .docx primero.">> >>, <<>>, "")
       /\ UNCHANGED inflight
     ELSE
       /\ CanStart("scanUpload")
       /\ inflight' = Started(ScanReq("scanUpload", level))
       /\ Emit(a, << <<"Subiendo ", ToString(Len(files)), " archivo(s)...">> >>,
               << [url |-> "/api/scan-upload",
                   body |-> [level |-> level, files |-> files]] >>,
               "")
  /\ UNCHANGED <<variant, uploadToken, uploadDirToken, lastFilesMeta, use_all, level, server,
                 metaToken>>

\* scanUpload from the response on (lines 350-356).
scanUpload2Resume(q, resp) ==
  /\ variant = 2 /\ q.op = "scanUpload"
  /\ LET a == [op |-> "scanUpload.resume", req |-> q, resp |-> resp] IN
     IF Throws(resp) THEN
       /\ inflight' = Resumed(q)
       /\ Emit(a, <<>>, <<>>, "")
       /\ UNCHANGED <<variant, session, dom, server, history>>
     ELSE LET js == resp.json[1] IN
       IF ~js.ok THEN
         /\ inflight' = Resumed(q)
         /\ Emit(a, <<ErrorLine(js, resp.status)>>, <<>>, "")
         /\ UNCHANGED <<variant, session, dom, server, history>>
       ELSE
         /\ issued' = js.token
         /\ uploadToken' = js.token
         /\ lastFilesMeta' = FilesMetaOf2(js)
         /\ ShowScan2(a, q, js,
              <<"Token: ", ToString(uploadToken'), " | Archivos: ", CountText(js),
                " | Titulos (unicos): ", ToString(Len(FieldOr(js, "titles", <<>>)))>>)
         /\ metaToken' = js.token
         /\ UNCHANGED <<variant, uploadDirToken, lastSource, use_all, level, released>>

\* lines 373-381: what the active source adds to the payload, or the line that
\* ends mergeNow.
SourcePart2(folder, subs) ==
  IF lastSource = "folder" THEN
    IF Trim(folder) = "" THEN Abort("Ingresa la ruta de la carpeta.")
    ELSE Fields([folder |-> Trim(folder), include_subs |-> subs])
  ELSE
    IF uploadToken = Null THEN Abort("Primero sube y escanea archivos.")
    ELSE Fields([token |-> uploadToken])

\* mergeNow up to `await fetch` (lines 359-387).
mergeNow2(mode, folder, subs) ==
  /\ variant = 2
  /\ LET a == [op |-> "mergeNow", folder |-> folder]
         sel == IF ~use_all THEN selectedOptions ELSE <<>>
         part == SourcePart2(folder, subs)
         payload == [source |-> lastSource, mode |-> mode, level |-> ParseInt(level),
                     use_all |-> use_all, titles |-> sel] @@ part.fields
     IN
     IF NoTitleChosen(use_all, sel) THEN
       /\ Emit(a, <<NoTitleLine>>, <<>>, "")
       /\ UNCHANGED inflight
     ELSE IF ~part.ok THEN
       /\ Emit(a, <<part.line>>, <<>>, "")
       /\ UNCHANGED inflight
     ELSE
       /\ CanStart("mergeNow")
       /\ inflight' = Started(Req("mergeNow", "", mode, Null))
       /\ Emit(a, << <<"Generando ZIP...">> >>,
               << [url |-> "/api/merge", body |-> payload] >>, "")
  /\ UNCHANGED <<variant, session, dom, server, history>>

\* cleanup up to `await fetch` (lines 405-410).
cleanup2 ==
  /\ variant = 2
  /\ IF NoToken(uploadToken) THEN
       /\ Emit([op |-> "cleanup"], <<NoUploadsLine>>, <<>>, "")
       /\ UNCHANGED <<inflight, released>>
     ELSE
       /\ CanStart("cleanup")
       /\ inflight' = Started(Req("cleanup", "", "", uploadToken))
       /\ released' = released \cup {uploadToken}
       /\ Emit([op |-> "cleanup"], <<>>,
               << [url |-> "/api/cleanup", body |-> [token |-> uploadToken]] >>, "")
  /\ UNCHANGED <<variant, session, dom, issued, history>>

\* cleanup from the response on (lines 411-412).
cleanup2Resume(q, resp) ==
  /\ variant = 2 /\ q.op = "cleanup"
  /\ inflight' = Resumed(q)
  /\ LET a == [op |-> "cleanup.resume", req |-> q, resp |-> resp] IN
     IF resp = NetworkError THEN
       /\ Emit(a, <<>>, <<>>, "")
       /\ UNCHANGED uploadToken
     ELSE
       /\ uploadToken' = Null
       /\ Emit(a, << <<"Subidas temporales limpiadas.">> >>, <<>>, "")
  /\ UNCHANGED <<variant, uploadDirToken, lastSource, lastFilesMeta, dom, server, history>>

\* The #level change handler (lines 421-426): the user picks another level.
levelChange(l) ==
  /\ variant = 2 /\ l # level
  /\ level' = l
  /\ options' = <<>> /\ selected' = {}
  /\ table' = drawFilesTable(<<>>) /\ badges' = <<0, 0>>
  /\ shownLevel' = ""
  /\ Emit([op |-> "level.change"], << <<"Nivel cambiado: vuelve a Escanear titulos.">> >>,
          <<>>, "")
  /\ UNCHANGED <<variant, session, use_all, inflight, server, metaToken>>

(***************************************************************************)
(* The controller: any handler may run whenever the event loop is free.    *)
(***************************************************************************)
Bool == {TRUE, FALSE}

Next ==
  \/ \E f \in FolderInputs, b \in Bool : scanFolder1(f, b)
  \/ \E q \in inflight, r \in ScanResponses(1, FALSE) : scanFolder1Resume(q, r)
  \/ \E fs \in FileInputs : scanUpload1(fs)
  \/ \E q \in inflight, r \in ScanResponses(1, TRUE) : scanUpload1Resume(q, r)
  \/ \E fs \in DirInputs : scanUploadDir1(fs)
  \/ \E q \in inflight, r \in ScanResponses(1, TRUE) : scanUploadDir1Resume(q, r)
  \/ \E m \in Modes, f \in FolderInputs, b \in Bool : mergeNow1(m, f, b)
  \/ \E q \in inflight, r \in MergeResponses : mergeNowResume(q, r)
  \/ cleanup1
  \/ \E q \in inflight, r \in CleanupResponses : cleanup1Resume(q, r)
  \/ useAllChange
  \/ \E S \in SelectionInputs : selectTitles(S)
  \/ \E f \in FolderInputs, b \in Bool : scanFolder2(f, b)
  \/ \E q \in inflight, r \in ScanResponses(2, FALSE) : scanFolder2Resume(q, r)
  \/ \E fs \in FileInputs : scanUpload2(fs)
  \/ \E q \in inflight, r \in ScanResponses(2, TRUE) : scanUpload2Resume(q, r)
  \/ \E m \in Modes, f \in FolderInputs, b \in Bool : mergeNow2(m, f, b)
  \/ cleanup2
  \/ \E q \in inflight, r \in CleanupResponses : cleanup2Resume(q, r)
  \/ \E l \in Levels : levelChange(l)

Spec == Init /\ [][Next]_vars


(***************************************************************************)
(* Properties                                                              *)
(***************************************************************************)

\* The payloads of the /api/merge requests the last step sent.
MergePayloads == {sent[i].body : i \in {j \in DOMAIN sent : sent[j].url = "/api/merge"}}

\* The last step was the resumption of a scan whose response said ok: true.
ScanResumes == {"scanFolder.resume", "scanUpload.resume", "scanUploadDir.resume"}
ScanSucceeded == act.op \in ScanResumes /\ ~Throws(act.resp) /\ act.resp.json[1].ok
ScanRefused   == act.op \in ScanResumes /\ ~Throws(act.resp) /\ ~act.resp.json[1].ok
ScanAborted   == act.op \in {"scanUpload", "scanUploadDir"} /\ act.files = <<>>

\* C1: every /api/merge request carries exactly one of a folder path or a token:
\* a "folder" payload has folder and include_subs and no token, an "upload" or
\* "upload_dir" payload has a token and neither folder nor include_subs.
C1_PayloadShape ==
  \A p \in MergePayloads :
    /\ p.source \in {"folder", "upload", "upload_dir"}
    /\ p.source = "folder" =>
         Has(p, "folder") /\ Has(p, "include_subs") /\ ~Has(p, "token")
    /\ p.source \in {"upload", "upload_dir"} =>
         Has(p, "token") /\ ~Has(p, "folder") /\ ~Has(p, "include_subs")

\* A folder merge is sent after a scan, a cleanup and a new folder scan, while
\* the cleanup is still pending.
C1_Witness ==
  /\ \E p \in MergePayloads : p.source = "folder"
  /\ released # {}
  /\ \E r \in inflight : r.op = "cleanup"

\* C2: mergeNow with use_all unchecked and nothing selected sends no request,
\* appends the prompt and leaves lastSource, the tokens and lastFilesMeta alone;
\* and a payload that is sent has an empty titles list only if use_all is checked.
C2_NoTitlesNoRequest ==
  [][ /\ (act'.op = "mergeNow" /\ ~use_all /\ selected = {}) =>
           /\ sent' = <<>>
           /\ logged' = <<NoTitleLine>>
           /\ inflight' = inflight
           /\ session' = session
      /\ \A p \in MergePayloads' : (p.titles = <<>>) => use_all'
    ]_vars

\* mergeNow has just ended on the prompt, with an upload token held.
C2_Witness ==
  /\ act.op = "mergeNow" /\ ~use_all /\ selected = {}
  /\ logged = <<NoTitleLine>> /\ sent = <<>>
  /\ uploadToken # Null

\* C3: cleanup with no token held sends no request, appends "No hay subidas por
\* limpiar." and leaves lastSource, the tokens and lastFilesMeta alone.
C3_CleanupNoToken ==
  [][ (act'.op = "cleanup" /\ uploadToken = Null /\ uploadDirToken = Null) =>
        /\ sent' = <<>>
        /\ logged' = <<NoUploadsLine>>
        /\ inflight' = inflight
        /\ session' = session
    ]_vars

\* cleanup has just ended on that line although the server has issued a token.
C3_Witness ==
  /\ act.op = "cleanup" /\ logged = <<NoUploadsLine>> /\ sent = <<>>
  /\ uploadToken = Null /\ uploadDirToken = Null
  /\ issued > 0

\* C4: no token leaks: a token the server has issued is still referenced by
\* uploadToken or uploadDirToken unless it was sent in a /api/cleanup request.
C4_NoTokenLeak ==
  \A t \in 1..issued : t \in released \/ t = uploadToken \/ t = uploadDirToken

\* C5: cleanup with a token held sends a /api/cleanup request for a held token;
\* when it completes no token is held any more, and every token it removed from
\* uploadToken / uploadDirToken is the token its request carried.
C5_CleanupRemovesWhatItSent ==
  [][ /\ (act'.op = "cleanup" /\ (uploadToken # Null \/ uploadDirToken # Null)) =>
           /\ Len(sent') = 1
           /\ sent'[1].url = "/api/cleanup"
           /\ sent'[1].body.token \in {uploadToken, uploadDirToken} \ {Null}
      /\ (act'.op = "cleanup.resume" /\ act'.resp # NetworkError) =>
           /\ uploadToken' = Null /\ uploadDirToken' = Null
           /\ \A t \in {uploadToken, uploadDirToken} \ {Null} : t = act'.req.token
    ]_vars

\* C6: the token of a /api/merge payload was issued by a scan-upload response and
\* had not been sent in a /api/cleanup request when the merge request was sent.
C6_MergeTokenValid ==
  \A p \in MergePayloads :
    Has(p, "token") => p.token \in 1..issued /\ p.token \notin released

\* C7: validation blocks the request: scanFolder with an empty folder path,
\* scanUpload / scanUploadDir without files, mergeNow with an empty folder path or
\* without the token of its source send nothing and append one log line.
C7_ValidationBlocks ==
  LET blocked == sent = <<>> /\ Len(logged) = 1 IN
  /\ (act.op = "scanFolder" /\ Trim(act.folder) = "") => blocked
  /\ ScanAborted => blocked
  /\ (act.op = "mergeNow" /\ lastSource = "folder" /\ Trim(act.folder) = "") => blocked
  /\ (act.op = "mergeNow" /\ lastSource = "upload" /\ uploadToken = Null) => blocked
  /\ (act.op = "mergeNow" /\ lastSource = "upload_dir" /\ uploadDirToken = Null) => blocked

\* The scan that has just succeeded overlapped another successful scan: that one
\* stored its token after this one had cleared it at its start.
OverlappedScan ==
  /\ ScanSucceeded
  /\ \/ act.op = "scanFolder.resume" /\ (uploadToken # Null \/ uploadDirToken # Null)
     \/ act.op = "scanUpload.resume" /\ uploadDirToken # Null
     \/ act.op = "scanUploadDir.resume" /\ uploadToken # Null

\* C8: when two scans overlap and both succeed, lastFilesMeta and the files table
\* hold the files_meta of the response that arrived last.
C8_LastResponseWins ==
  OverlappedScan =>
    /\ lastFilesMeta = FilesMetaOf(act.resp.json[1])
    /\ table = drawFilesTable(FilesMetaOf(act.resp.json[1]))

\* C9: once a scan has finished (success, ok: false, or no files chosen),
\* lastFilesMeta is the files_meta it returned, or empty if it returned none.
C9_ReplacedOnEveryScan ==
  /\ ScanSucceeded => lastFilesMeta = FilesMetaOf(act.resp.json[1])
  /\ ScanRefused => lastFilesMeta = <<>>
  /\ ScanAborted => lastFilesMeta = <<>>

\* C10: in variant 2 the titles and the file rows on the page were computed for
\* the level that is selected now: a level change empties them until a scan
\* started after it returns.
C10_TitlesOfCurrentLevel ==
  (variant = 2 /\ (options # <<>> \/ FileRows(table) # <<>>)) => shownLevel = level

\* C11: "use all" and a manual selection exclude each other: use_all is never
\* checked while an option of the title list is selected.
C11_UseAllExcludesSelection == ~(use_all /\ selected # {})

\* C12: the use_all change event, when it leaves the checkbox checked, leaves no
\* option selected; when it leaves it unchecked, it leaves the selection as it was.
C12_UseAllClearsSelection ==
  [][ act'.op = "use_all.change" =>
        /\ use_all' => selected' = {}
        /\ ~use_all' => selected' = selected
    ]_vars

\* use_all has just been unchecked, and the selection made while it was checked
\* is still there.
C12_Witness == act.op = "use_all.change" /\ ~use_all /\ selected # {}

\* The last step was the resumption of a scan whose response is not ok: an HTTP
\* error status, or a body that says ok: false.
ScanNotOk ==
  /\ act.op \in ScanResumes /\ act.resp # NetworkError
  /\ act.resp.status # "200" \/ (act.resp.json # <<>> /\ ~act.resp.json[1].ok)

\* C13: a scan whose response is not ok, JSON or not, appends one "ERROR: " line
\* with the server's error string or the HTTP status, stores neither file
\* metadata nor a token, and sends no further request.
C13_ScanErrorLogged ==
  [][ ScanNotOk' =>
        /\ Len(logged') = 1
        /\ logged'[1][1] = "ERROR: "
        /\ logged'[1][2] \in {act'.resp.status} \cup
                              {js.error : js \in {j \in Range(act'.resp.json) : Has(j, "error")}}
        /\ session' = session
        /\ sent' = <<>>
    ]_vars

\* C15: after a successful scan the files table has one row per entry of the
\* response's files_meta, whatever the response's count says.
C15_RowPerFile ==
  ScanSucceeded =>
    FileRows(table) = [i \in 1..Len(FilesMetaOf(act.resp.json[1])) |->
                         FileRow(FilesMetaOf(act.resp.json[1])[i])]

\* C16: in variant 2 a successful scan, with or without the optional titles
\* field, stores lastFilesMeta, fills the title list with the response's titles
\* (none when absent) and draws the table from the response's files_meta.
C16_SuccessWithoutTitles ==
  (variant = 2 /\ ScanSucceeded) =>
    LET js == act.resp.json[1] IN
    /\ lastFilesMeta = FilesMetaOf2(js)
    /\ options = FieldOr(js, "titles", <<>>)
    /\ table = drawFilesTable(FilesMetaOf2(js))

\* C17: in variant 1 at most one of uploadToken and uploadDirToken is held.
C17_OneTokenHeld == variant = 1 => (uploadToken = Null \/ uploadDirToken = Null)

\* The last step was the part of a scan handler up to its await.
ScanOps == {"scanFolder", "scanUpload", "scanUploadDir"}
ScanStarted == act.op \in ScanOps

C18_MergeTokenOfShownFiles ==
  \A p \in MergePayloads :
    (Has(p, "token") /\ ~\E r \in inflight : r.op \in ScanOps) => p.token = metaToken

\* C19: mergeNow changes neither lastSource nor the tokens nor lastFilesMeta, on
\* its way to the request and after the response, whatever the response is.
C19_MergeKeepsSession ==
  [][ act'.op \in {"mergeNow", "mergeNow.resume"} => session' = session ]_vars

\* The download of a merge has just started and the upload token it used is
\* still held.
C19_Witness ==
  /\ act.op = "mergeNow.resume" /\ download # ""
  /\ lastSource = "upload" /\ uploadToken # Null /\ uploadToken \notin released

====
